---------------------------- MODULE Spec2Model ----------------------------
(***************************************************************************)
(* Service-account rotation and process supervision of autorclone.py:      *)
(* the credential pool (get_next_sa_json_path, the resume re-ordering),    *)
(* the rotation controller auto_rclone with its file lock, its persisted   *)
(* instance state and the processes it launches and kills.                 *)
(***************************************************************************)
EXTENDS Integers, Sequences, FiniteSets, TLC

\* ------------------------------------------------------------------ bounds
\* Largest credential pool explored.
MaxPool == 3

\* ------------------------------------------------------- credential names
\* Credential file paths found by glob, in glob order.
AllCreds == <<"sa1.json", "sa2.json", "sa3.json", "sa4.json", "sa5.json">>

Creds == {AllCreds[i] : i \in 1..MaxPool}

\* A value of last_sa that names no credential of the pool.
StaleSa == "stale.json"

\* instance_config.get("last_sa", "") when the key is missing.
NoSa == ""

\* The exception list subscripting raises.
IndexError == "IndexError"

\* ------------------------------------------------------- python list model
\* `x in s`
In(x, s) == \E i \in 1..Len(s) : s[i] = x

\* s.index(x): the 0-based position of the first occurrence.
Index(s, x) == (CHOOSE i \in 1..Len(s) : s[i] = x /\ \A j \in 1..(i-1) : s[j] # x) - 1

\* s[i] with python's 0-based and negative indices; IndexError outside.
Subscript(s, i) ==
    IF i \in 0..(Len(s) - 1) THEN s[i + 1]
    ELSE IF i \in (-Len(s))..(-1) THEN s[Len(s) + i + 1]
    ELSE IndexError

\* s[i:] + s[:i] for 0 <= i < len(s).
Rotate(s, i) == SubSeq(s, i + 1, Len(s)) \o SubSeq(s, 1, i)

\* ------------------------------------------------------- credential pool
\* A slip of the successor step: the index of last_sa itself is reused.
get_next_sa_json_path_noadvance(sa_jsons, _last_sa) ==
    LET next_sa_index == IF ~In(_last_sa, sa_jsons) THEN 0
                         ELSE Index(sa_jsons, _last_sa)
    IN  Subscript(sa_jsons, next_sa_index)

get_next_sa_json_path(sa_jsons, _last_sa) ==
    LET next_sa_index == IF ~In(_last_sa, sa_jsons) THEN 0
                         ELSE Index(sa_jsons, _last_sa) + 1
        wrapped == IF next_sa_index > Len(sa_jsons)
                   THEN next_sa_index - Len(sa_jsons)
                   ELSE next_sa_index
    IN  Subscript(sa_jsons, wrapped)

\* The re-ordering of the pool at startup.
resume_order(sa_jsons, last_sa) ==
    IF In(last_sa, sa_jsons)
    THEN Rotate(sa_jsons, Index(sa_jsons, last_sa))
    ELSE sa_jsons

\* ------------------------------------------------------- python str model
\* Strings that are searched are held as sequences of characters.
\* h.find(n): the 0-based position of the first occurrence of n in h, or -1.
Find(h, n) ==
    LET hits == {i \in 0..(Len(h) - Len(n)) : SubSeq(h, i + 1, i + Len(n)) = n}
    IN  IF hits = {} THEN -1
        ELSE CHOOSE i \in hits : \A j \in hits : i <= j

\* "rclone", the executable name force_kill searches for.
RcloneWord == <<"r", "c", "l", "o", "n", "e">>

\* "userRateLimitExceeded", the marker of the rate-limit rule.
RateLimitWord == <<"u", "s", "e", "r", "R", "a", "t", "e", "L", "i", "m", "i", "t",
                   "E", "x", "c", "e", "e", "d", "e", "d">>

\* Executable names of the processes of the model, as psutil reports them.
NameChars(name) ==
    CASE name = "sh" -> <<"s", "h">>
      [] name = "rclone" -> RcloneWord
      [] name = "rclone-ui" -> RcloneWord \o <<"-", "u", "i">>
      [] name = "sleep" -> <<"s", "l", "e", "e", "p">>
      [] OTHER -> <<>>

\* lastError strings a core/stats response may carry.
ErrNone == <<>>
ErrRateLimit == <<"4", "0", "3", ":", " ">> \o RateLimitWord \o <<",", " ">>

\* The value of a key of a JSON object: <<v>>, or <<>> when the object does
\* not have the key.
Missing == <<>>
Has(v) == <<v>>

\* --------------------------------------------------- byte counts (big ints)
\* Cumulative byte counts exceed 32 bits: a count is held in two limbs,
\* hi * pow(1000, 3) + lo with 0 <= lo < pow(1000, 3).
Giga == 1000000000

Big(hi, lo) == [hi |-> hi, lo |-> lo]

BigGT(a, b) == a.hi > b.hi \/ (a.hi = b.hi /\ a.lo > b.lo)

\* a - b, limb by limb (zero exactly when a = b).
BigSub(a, b) == [hi |-> a.hi - b.hi, lo |-> a.lo - b.lo]

BigIsZero(a) == a.hi = 0 /\ a.lo = 0

\* 750 * pow(1000, 3)
UploadCapGB == 750

UploadCap == Big(UploadCapGB, 0)

\* Number of non-increasing checks after which the stall rule hits.
StallLimit == 100

\* Number of consecutive failed polls that ends the session.
ErrorLimit == 3

\* ------------------------------------------------------- rotation rules
RuleNames == {"up_than_750", "error_user_rate_limit",
              "zero_transferred_between_check_interval", "all_transfers_in_zero"}

\* dict.get(key, default) on a record-like JSON object.
Get(obj, key, default) == IF obj[key] = Missing THEN default ELSE obj[key][1]

\* A slip of the loop over the transfers: the byte count of an entry is not
\* looked at, any entry with a positive speed counts as unfinished.
Graceful_speedonly(transferring, i) ==
    ~\E k \in i..Len(transferring) :
        /\ transferring[k].bytes # Missing
        /\ transferring[k].speed # Missing
        /\ transferring[k].speed[1] > 0

RECURSIVE Graceful(_, _)
\* The loop over response_json["transferring"] from entry i on: FALSE at the
\* first entry with both fields, bytes != 0 and speed > 0.
Graceful(transferring, i) ==
    IF i > Len(transferring) THEN TRUE
    ELSE LET transfer == transferring[i]
         IN  IF transfer.bytes = Missing \/ transfer.speed = Missing
             THEN Graceful(transferring, i + 1)
             ELSE IF Get(transfer, "bytes", 0) # 0 /\ Get(transfer, "speed", 0) > 0
             THEN FALSE
             ELSE Graceful(transferring, i + 1)

\* A slip of the size test: the cap itself already counts.
UpThan750_atcap(response_json) ==
    ~BigGT(UploadCap, Get(response_json, "bytes", Big(0, 0)))

\* Rule up_than_750.
UpThan750(response_json) == BigGT(Get(response_json, "bytes", Big(0, 0)), UploadCap)

\* Rule error_user_rate_limit.
ErrorUserRateLimit(response_json) ==
    Find(Get(response_json, "lastError", ErrNone), RateLimitWord) > -1

\* Rule all_transfers_in_zero; an absent or empty list is falsy.
AllTransfersInZero(response_json) ==
    LET transferring == Get(response_json, "transferring", <<>>)
    IN  IF Len(transferring) > 0 THEN Graceful(transferring, 1) ELSE TRUE

\* A slip of the stall counter: an increase does not reset it.
StallCount_noreset(cnt_transfer, cnt_transfer_last, cnt_403_retry) ==
    IF BigIsZero(BigSub(cnt_transfer, cnt_transfer_last))
    THEN cnt_403_retry + 1
    ELSE cnt_403_retry

\* The stall counter after one check: +1 when the byte count did not change.
StallCount(cnt_transfer, cnt_transfer_last, cnt_403_retry) ==
    IF BigIsZero(BigSub(cnt_transfer, cnt_transfer_last))
    THEN cnt_403_retry + 1
    ELSE 0

\* A slip of the stall test: one more check without progress is needed.
StallReached_late(cnt_403_retry) == cnt_403_retry > StallLimit

\* The test of the stalled-transfer rule on the counter.
StallReached(cnt_403_retry) == cnt_403_retry >= StallLimit

\* A slip of the threshold test: strictly more hits than the level are needed.
LevelReached_strict(should_switch, level) == should_switch > level

\* The test that ends the session.
LevelReached(should_switch, level) == should_switch >= level

\* One evaluation of the rules on a core/stats response: the hit rules in the
\* order they are tested (switch_reason), their number (should_switch) and
\* the session counters after it.
Decide(rules, response_json, retry, last) ==
    LET cnt_transfer == Get(response_json, "bytes", Big(0, 0))
        stallOn == rules["zero_transferred_between_check_interval"]
        retry1 == IF stallOn THEN StallCount(cnt_transfer, last, retry) ELSE retry
        h1 == IF rules["up_than_750"] /\ UpThan750(response_json)
              THEN <<"up_than_750">> ELSE <<>>
        h2 == IF stallOn /\ BigIsZero(BigSub(cnt_transfer, last))
                         /\ StallReached(retry1)
              THEN <<"zero_transferred_between_check_interval">> ELSE <<>>
        h3 == IF rules["error_user_rate_limit"] /\ ErrorUserRateLimit(response_json)
              THEN <<"error_user_rate_limit">> ELSE <<>>
        h4 == IF rules["all_transfers_in_zero"] /\ AllTransfersInZero(response_json)
              THEN <<"all_transfers_in_zero">> ELSE <<>>
        reason == h1 \o h2 \o h3 \o h4
    IN  [should_switch |-> Len(reason),
         switch_reason |-> reason,
         cnt_403_retry |-> retry1,
         cnt_transfer_last |-> IF stallOn THEN cnt_transfer ELSE last]

\* ------------------------------------------------------------ more bounds
\* Number of controller processes (invocations of the script) that may run.
NumCtl == 2

\* Total number of sync processes launched (subprocess.Popen calls).
MaxLaunch == 2

\* Largest number of credential files in the account directory.
MaxFolder == 2

\* The stall counter is followed up to this value.
StallCap == 101

\* Number of the ports random.randint may return that are explored.
MaxPorts == 2

\* ------------------------------------------------------------ rc address
\* An address is <<host, port>>; RC_ADDR "" is <<>>, ":5572" is <<"", 5572>>.
PortLo == 5573
PortHi == 5582
FixedPort == PortLo - 1

\* rc_addr as the module computes it when it is imported; rnd is the value
\* random.randint(5573, 5582) returns.
RcAddrOf(setting, rnd) ==
    IF setting = <<>> THEN <<"localhost", rnd>>
    ELSE IF setting[1] = "" THEN <<"localhost", setting[2]>>
    ELSE setting

\* The values of random.randint(5573, 5582) that are explored.
RandomPorts == {rnd \in PortLo..PortHi : rnd < PortLo + MaxPorts}

\* The addresses a controller may come to use under a setting.
AddrsOf(setting) == {RcAddrOf(setting, rnd) : rnd \in RandomPorts}

\* ----------------------------------------------------------------- state
\* The variables named after the script's own hold their values at the points
\* between the steps; should_switch and switch_reason, which every check sets
\* anew, are cleared at the top of the rotation loop.
VARIABLES
    RC_ADDR,            \* settings.RC_ADDR
    switch_sa_rules,    \* rule name -> enabled
    switch_sa_level,    \* hits needed to rotate
    sa_folder,          \* glob of the account directory
    lock,               \* address -> controller holding the file lock, or 0
    conf_file,          \* address -> content of the instance config file
    procs,              \* pid -> [name, ppid, sa, addr] of the live processes
    launches,           \* number of Popen calls so far
    pc,                 \* controller -> position in auto_rclone
    result,             \* controller -> how its last run ended
    rc_addr,            \* controller -> rc_addr of its run
    sa_jsons,           \* controller -> the (re-ordered) pool
    last_sa,            \* controller -> last_sa
    instance_config,    \* controller -> the in-memory instance config
    proc,               \* controller -> proc.pid of the current session, or 0
    cnt_error,          \* controller -> consecutive failed polls
    cnt_403_retry,      \* controller -> the stall counter
    cnt_transfer_last,  \* controller -> bytes of the previous check
    should_switch,      \* controller -> hits of the last evaluation
    switch_reason,      \* controller -> rules hit at the last evaluation
    fail_streak         \* controller -> failed polls since the last success

VARIABLES
    fn_pool,        \* the pool handed to get_next_sa_json_path
    fn_start,       \* the last_id the first call is given
    fn_out,         \* the results of the consecutive calls so far
    fn_resumed      \* result of resume_order followed by next, or "none"

VARIABLES
    dc_rules,       \* switch_sa_rules of the checks exercised
    dc_level,       \* switch_sa_level of the checks exercised
    dc_retry,       \* cnt_403_retry before the next check
    dc_last,        \* cnt_transfer_last before the next check
    dc_response,    \* the response of the latest check, if any
    dc_out,         \* the outcome of the latest check, if any
    dc_rising,      \* the bytes values of the session's checks rose strictly
    dc_same         \* latest checks in a row that repeated the recorded bytes

VARIABLES
    fk_table,       \* pid -> [name, ppid] of the live processes
    fk_pid,         \* the argument sh_pid of the calls
    fk_pc,          \* position in force_kill_rclone_subproc_by_parent_pid
    fk_calls,       \* number of calls started
    fk_was_alive,   \* what psutil.pid_exists(sh_pid) answered
    fk_seen,        \* the process table when the children were enumerated
    fk_todo,        \* children still to be visited by the loop
    fk_killed,      \* pids on which the call has executed kill()
    fk_gone,        \* pids that ended by themselves since the call began
    fk_first        \* the live pids when the first call returned
                    \* (emptied when a process ends by itself after it)

VARIABLES
    pf_polls,       \* the outcomes of the polls so far (TRUE: core/stats answered)
    pf_single,      \* the poll loop of rclone.auto_rclone
    pf_rotating     \* the poll loop of autorclone.auto_rclone

VARIABLES
    mg_files,       \* number of *.json files in service_account_path
    mg_args,        \* begin_sa_id and end_sa_id of rclone_sa_magic.auto_rclone
    mg_pc,          \* position in rclone_sa_magic.auto_rclone
    magic,          \* its locals, under their names
    PID,            \* the global PID of rclone_sa_magic.py
    mg_rclone,      \* the rclone of the current session: its pid, what it does
    mg_sessions,    \* the sa_id of the sessions launched, in order
    mg_ends,        \* how the sessions ended, in order
    mg_kills,       \* the kills issued: their target, the pid of the session's rclone
    mg_result       \* how the script ended

cfgvars == <<RC_ADDR, switch_sa_rules, switch_sa_level, sa_folder>>
envvars == <<lock, conf_file, procs, launches>>
ctlvars == <<pc, result, rc_addr, sa_jsons, last_sa, instance_config, proc,
             cnt_error, cnt_403_retry, cnt_transfer_last, should_switch,
             switch_reason, fail_streak>>
sysvars == <<cfgvars, envvars, ctlvars>>
poolvars == <<fn_pool, fn_start, fn_out, fn_resumed>>
dcvars == <<dc_rules, dc_level, dc_retry, dc_last, dc_response, dc_out, dc_rising,
            dc_same>>
fkvars == <<fk_table, fk_pid, fk_pc, fk_calls, fk_was_alive, fk_seen, fk_todo,
            fk_killed, fk_gone, fk_first>>
pfvars == <<pf_polls, pf_single, pf_rotating>>
mgvars == <<mg_files, mg_args, mg_pc, magic, PID, mg_rclone, mg_sessions, mg_ends,
            mg_kills, mg_result>>
fnvars == <<poolvars, dcvars, fkvars, pfvars, mgvars>>
vars == <<sysvars, fnvars>>

Ctl == 1..NumCtl

\* An empty dict.
EmptyConfig == [last_sa |-> Missing, last_pid |-> Missing]

\* The instance config file does not exist.
Absent == [kind |-> "absent", data |-> EmptyConfig]

\* The instance config file cut short: opened for writing and not yet (or
\* never) dumped into.
Truncated == [kind |-> "truncated", data |-> EmptyConfig]

\* The instance config file holding the dump of a dict.
Dumped(config) == [kind |-> "json", data |-> config]

Pids == DOMAIN procs

\* Process ids: init, the controllers, and the processes they launch.
InitPid == 1
CtlPid(p) == InitPid + p
FirstPid == 10

\* psutil.pid_exists(pid)
Alive(pid) == pid \in Pids

\* psutil.Process(pid).children(): the processes whose parent is pid.
Children(table, pid) == {c \in DOMAIN table : table[c].ppid = pid}

\* Process.kill() on the processes of S, or their own exit: they leave the
\* process table, their children are re-parented to init.
KillAll(table, S) ==
    [c \in (DOMAIN table) \ S |->
        IF table[c].ppid \in S THEN [table[c] EXCEPT !.ppid = InitPid]
        ELSE table[c]]

\* A slip of the name test: every child is taken for the sync binary.
KillsChild_any(name) == TRUE

\* child_proc.name().find("rclone") > -1
KillsChild(name) == Find(NameChars(name), RcloneWord) > -1

\* The processes force_kill_rclone_subproc_by_parent_pid(sh_pid) kills.
ForceKillTargets(table, sh_pid) ==
    IF sh_pid \in DOMAIN table
    THEN {c \in Children(table, sh_pid) : KillsChild(table[c].name)}
    ELSE {}

force_kill_rclone_subproc_by_parent_pid(table, sh_pid) ==
    KillAll(table, ForceKillTargets(table, sh_pid))

\* write_config's in-memory half: instance_config[name] = value.
SetKey(config, name, value) == [config EXCEPT ![name] = Has(value)]

\* Leaving the `with` block, by return or by exception, or the death of the
\* process: the file lock of the run's address is free again.
Released(p) == [lock EXCEPT ![rc_addr[p]] = IF @ = p THEN 0 ELSE @]

\* The controller's run is over; its frame is gone.
Ends(p, how) ==
    /\ pc' = [pc EXCEPT ![p] = "done"]
    /\ result' = [result EXCEPT ![p] = how]
    /\ lock' = Released(p)
    /\ cnt_error' = [cnt_error EXCEPT ![p] = 0]
    /\ cnt_403_retry' = [cnt_403_retry EXCEPT ![p] = 0]
    /\ cnt_transfer_last' = [cnt_transfer_last EXCEPT ![p] = Big(0, 0)]
    /\ should_switch' = [should_switch EXCEPT ![p] = 0]
    /\ switch_reason' = [switch_reason EXCEPT ![p] = <<>>]
    /\ instance_config' = [instance_config EXCEPT ![p] = EmptyConfig]
    /\ sa_jsons' = [sa_jsons EXCEPT ![p] = <<>>]
    /\ last_sa' = [last_sa EXCEPT ![p] = NoSa]
    /\ proc' = [proc EXCEPT ![p] = 0]

\* ------------------------------------------------------ the controller
\* filelock's acquire(timeout=0) succeeds when nobody holds the lock file.
LockFree_nocheck(addr) == TRUE

LockFree(addr) == lock[addr] = 0

\* A slip of the start: the emptiness of the account directory goes unnoticed.
NoCredentials_unchecked(folder) == FALSE

\* len(sa_jsons) == 0 after the glob of the account directory.
NoCredentials(folder) == Len(folder) = 0

\* The run starts (the module is imported, auto_rclone is entered) while
\* another controller holds the lock of its address: Timeout is raised.
StartLocked(p) ==
    /\ pc[p] \in {"idle", "done"}
    /\ \E addr \in AddrsOf(RC_ADDR) :
        /\ ~LockFree(addr)
        /\ rc_addr' = [rc_addr EXCEPT ![p] = addr]
    /\ pc' = [pc EXCEPT ![p] = "done"]
    /\ result' = [result EXCEPT ![p] = "Timeout"]
    /\ fail_streak' = [fail_streak EXCEPT ![p] = 0]
    /\ UNCHANGED <<cfgvars, envvars, proc, sa_jsons, last_sa, instance_config, cnt_error,
                   cnt_403_retry, cnt_transfer_last, should_switch, switch_reason,
                   fnvars>>

\* The lock is taken and the account directory holds no credential: return False.
StartNoAccounts(p) ==
    /\ pc[p] \in {"idle", "done"}
    /\ NoCredentials(sa_folder)
    /\ \E addr \in AddrsOf(RC_ADDR) :
        /\ LockFree(addr)
        /\ rc_addr' = [rc_addr EXCEPT ![p] = addr]
    /\ pc' = [pc EXCEPT ![p] = "done"]
    /\ result' = [result EXCEPT ![p] = "no_sa"]
    /\ fail_streak' = [fail_streak EXCEPT ![p] = 0]
    /\ UNCHANGED <<cfgvars, envvars, proc, sa_jsons, last_sa, instance_config, cnt_error,
                   cnt_403_retry, cnt_transfer_last, should_switch, switch_reason,
                   fnvars>>

\* The lock is taken and the instance config file does not parse:
\* json.loads raises and the lock is released.
StartBadConfig(p) ==
    /\ pc[p] \in {"idle", "done"}
    /\ ~NoCredentials(sa_folder)
    /\ \E addr \in AddrsOf(RC_ADDR) :
        /\ LockFree(addr)
        /\ conf_file[addr] = Truncated
        /\ rc_addr' = [rc_addr EXCEPT ![p] = addr]
    /\ pc' = [pc EXCEPT ![p] = "done"]
    /\ result' = [result EXCEPT ![p] = "JSONDecodeError"]
    /\ fail_streak' = [fail_streak EXCEPT ![p] = 0]
    /\ UNCHANGED <<cfgvars, envvars, proc, sa_jsons, last_sa, instance_config, cnt_error,
                   cnt_403_retry, cnt_transfer_last, should_switch, switch_reason,
                   fnvars>>

\* The lock is taken, the instance config is loaded, the process recorded as
\* last_pid is checked and its rclone children killed, the pool is re-ordered.
StartOk(p) ==
    /\ pc[p] \in {"idle", "done"}
    /\ ~NoCredentials(sa_folder)
    /\ \E addr \in AddrsOf(RC_ADDR) :
        LET loaded == IF conf_file[addr] = Absent THEN EmptyConfig
                      ELSE conf_file[addr].data
            last == Get(loaded, "last_sa", NoSa)
        IN
        /\ LockFree(addr)
        /\ conf_file[addr] # Truncated
        /\ rc_addr' = [rc_addr EXCEPT ![p] = addr]
        /\ lock' = [lock EXCEPT ![addr] = p]
        /\ instance_config' = [instance_config EXCEPT ![p] = loaded]
        /\ procs' = IF loaded.last_pid # Missing
                    THEN force_kill_rclone_subproc_by_parent_pid(procs, loaded.last_pid[1])
                    ELSE procs
        /\ last_sa' = [last_sa EXCEPT ![p] = last]
        /\ sa_jsons' = [sa_jsons EXCEPT ![p] = resume_order(sa_folder, last)]
    /\ launches' = launches
    /\ pc' = [pc EXCEPT ![p] = "pick"]
    /\ result' = [result EXCEPT ![p] = "none"]
    /\ proc' = [proc EXCEPT ![p] = 0]
    /\ fail_streak' = [fail_streak EXCEPT ![p] = 0]
    /\ UNCHANGED <<cfgvars, conf_file, cnt_error, cnt_403_retry, cnt_transfer_last,
                   should_switch, switch_reason, fnvars>>

\* Top of the rotation loop: the next credential is picked and persisted.
Pick(p) ==
    /\ pc[p] = "pick"
    /\ LET current_sa == get_next_sa_json_path(sa_jsons[p], last_sa[p])
           config == SetKey(instance_config[p], "last_sa", current_sa)
       IN
       /\ current_sa # IndexError
       /\ last_sa' = [last_sa EXCEPT ![p] = current_sa]
       /\ instance_config' = [instance_config EXCEPT ![p] = config]
       /\ conf_file' = [conf_file EXCEPT ![rc_addr[p]] = Dumped(config)]
    /\ pc' = [pc EXCEPT ![p] = "launch"]
    /\ should_switch' = [should_switch EXCEPT ![p] = 0]
    /\ switch_reason' = [switch_reason EXCEPT ![p] = <<>>]
    /\ UNCHANGED <<cfgvars, lock, procs, launches, result, rc_addr, sa_jsons, proc,
                   cnt_error, cnt_403_retry, cnt_transfer_last, fail_streak, fnvars>>

\* Top of the rotation loop when the subscript of the pool raises: the
\* exception leaves auto_rclone and the lock is released.
PickRaises(p) ==
    /\ pc[p] = "pick"
    /\ get_next_sa_json_path(sa_jsons[p], last_sa[p]) = IndexError
    /\ Ends(p, IndexError)
    /\ UNCHANGED <<cfgvars, conf_file, procs, launches, rc_addr, fail_streak, fnvars>>

\* subprocess.Popen(cmd, shell=True): a shell whose child is rclone, serving
\* rc on the run's address under the picked credential.
Launch(p) ==
    /\ pc[p] = "launch"
    /\ launches < MaxLaunch
    /\ LET sh_pid == FirstPid + 2 * launches IN
       /\ procs' = [c \in Pids \cup {sh_pid, sh_pid + 1} |->
                        IF c = sh_pid
                        THEN [name |-> "sh", ppid |-> CtlPid(p),
                              sa |-> last_sa[p], addr |-> rc_addr[p]]
                        ELSE IF c = sh_pid + 1
                        THEN [name |-> "rclone", ppid |-> sh_pid,
                              sa |-> last_sa[p], addr |-> rc_addr[p]]
                        ELSE procs[c]]
       /\ proc' = [proc EXCEPT ![p] = sh_pid]
    /\ launches' = launches + 1
    /\ pc' = [pc EXCEPT ![p] = "warmup"]
    /\ UNCHANGED <<cfgvars, lock, conf_file, result, rc_addr, sa_jsons, last_sa,
                   instance_config, cnt_error, cnt_403_retry, cnt_transfer_last,
                   should_switch, switch_reason, fail_streak, fnvars>>

\* A slip of the session start: the counters of the session before are kept.
Warmup_keep(p) ==
    /\ pc[p] = "warmup"
    /\ LET config == SetKey(instance_config[p], "last_pid", proc[p]) IN
       /\ instance_config' = [instance_config EXCEPT ![p] = config]
       /\ conf_file' = [conf_file EXCEPT ![rc_addr[p]] = Dumped(config)]
    /\ fail_streak' = [fail_streak EXCEPT ![p] = 0]
    /\ pc' = [pc EXCEPT ![p] = "monitor"]
    /\ UNCHANGED <<cfgvars, lock, procs, launches, result, rc_addr, sa_jsons, last_sa,
                   proc, cnt_error, cnt_403_retry, cnt_transfer_last, should_switch,
                   switch_reason, fnvars>>

\* After the sleep: last_pid is persisted and the session counters start at 0.
Warmup(p) ==
    /\ pc[p] = "warmup"
    /\ LET config == SetKey(instance_config[p], "last_pid", proc[p]) IN
       /\ instance_config' = [instance_config EXCEPT ![p] = config]
       /\ conf_file' = [conf_file EXCEPT ![rc_addr[p]] = Dumped(config)]
    /\ cnt_error' = [cnt_error EXCEPT ![p] = 0]
    /\ cnt_403_retry' = [cnt_403_retry EXCEPT ![p] = 0]
    /\ cnt_transfer_last' = [cnt_transfer_last EXCEPT ![p] = Big(0, 0)]
    /\ fail_streak' = [fail_streak EXCEPT ![p] = 0]
    /\ pc' = [pc EXCEPT ![p] = "monitor"]
    /\ UNCHANGED <<cfgvars, lock, procs, launches, result, rc_addr, sa_jsons, last_sa,
                   proc, should_switch, switch_reason, fnvars>>

\* ------------------------------------------------------ core/stats responses
\* Entries of the transferring list: one without fields, one moving, one
\* standing still, one moving that has not sent a byte yet.
TransferDone == [bytes |-> Missing, speed |-> Missing]
TransferMoving == [bytes |-> Has(1), speed |-> Has(1)]
TransferStill == [bytes |-> Has(1), speed |-> Has(0)]
TransferFresh == [bytes |-> Has(0), speed |-> Has(1)]

TransferLists ==
    {<<>>, <<TransferMoving>>, <<TransferStill>>, <<TransferFresh>>,
     <<TransferDone, TransferMoving>>, <<TransferDone, TransferStill>>}

\* Cumulative byte counts: nothing yet, the cap, one byte above the cap.
ByteCounts == {Big(0, 0), UploadCap, Big(UploadCapGB, 1)}

\* The parsed output of `rclone rc core/stats`.
Responses ==
    [bytes : {Has(b) : b \in ByteCounts},
     lastError : {Has(ErrNone), Has(ErrRateLimit)},
     transferring : {Missing} \cup {Has(t) : t \in TransferLists}]

\* An rclone process is serving rc on the address.
Serving(addr) ==
    \E c \in Pids : procs[c].name = "rclone" /\ procs[c].addr = addr

\* The strike test of the poll loop.
CapReached_late(cnt) == cnt > ErrorLimit

CapReached(cnt) == cnt >= ErrorLimit

\* A slip of the failed poll: the stall counter is started over.
PollFail_resets(p) ==
    /\ pc[p] = "monitor"
    /\ ~CapReached(cnt_error[p] + 1)
    /\ cnt_error' = [cnt_error EXCEPT ![p] = @ + 1]
    /\ cnt_403_retry' = [cnt_403_retry EXCEPT ![p] = 0]
    /\ fail_streak' = [fail_streak EXCEPT ![p] = @ + 1]
    /\ UNCHANGED <<cfgvars, envvars, pc, result, rc_addr, sa_jsons, last_sa,
                   instance_config, proc, cnt_transfer_last,
                   should_switch, switch_reason, fnvars>>

\* A poll fails (CalledProcessError) below the cap: wait and poll again.
PollFail(p) ==
    /\ pc[p] = "monitor"
    /\ ~CapReached(cnt_error[p] + 1)
    /\ cnt_error' = [cnt_error EXCEPT ![p] = @ + 1]
    /\ fail_streak' = [fail_streak EXCEPT ![p] = @ + 1]
    /\ UNCHANGED <<cfgvars, envvars, pc, result, rc_addr, sa_jsons, last_sa,
                   instance_config, proc, cnt_403_retry, cnt_transfer_last,
                   should_switch, switch_reason, fnvars>>

\* A slip of the fatal path: after the kill the loop goes on to the next
\* credential instead of returning.
PollFatal_advance(p) ==
    /\ pc[p] = "monitor"
    /\ CapReached(cnt_error[p] + 1)
    /\ procs' = KillAll(procs, {proc[p]})
    /\ pc' = [pc EXCEPT ![p] = "pick"]
    /\ cnt_error' = [cnt_error EXCEPT ![p] = 0]
    /\ fail_streak' = [fail_streak EXCEPT ![p] = @ + 1]
    /\ UNCHANGED <<cfgvars, lock, conf_file, launches, result, rc_addr, sa_jsons,
                   last_sa, instance_config, proc, cnt_403_retry, cnt_transfer_last,
                   should_switch, switch_reason, fnvars>>

\* A poll fails and the cap is reached: proc.kill() and return False.
PollFatal(p) ==
    /\ pc[p] = "monitor"
    /\ CapReached(cnt_error[p] + 1)
    /\ procs' = KillAll(procs, {proc[p]})
    /\ Ends(p, "poll_cap")
    /\ fail_streak' = [fail_streak EXCEPT ![p] = @ + 1]
    /\ UNCHANGED <<cfgvars, conf_file, launches, rc_addr, fnvars>>

\* A poll succeeds: the failure counter is reset, the rules are evaluated and,
\* when enough of them hit, the rclone children of proc.pid are killed and the
\* loop goes on to the next credential.
PollOk(p) ==
    /\ pc[p] = "monitor"
    /\ Serving(rc_addr[p])
    /\ \E response_json \in Responses :
        LET d == Decide(switch_sa_rules, response_json,
                        cnt_403_retry[p], cnt_transfer_last[p])
            switch == LevelReached(d.should_switch, switch_sa_level)
        IN
        /\ d.cnt_403_retry <= StallCap
        /\ cnt_403_retry' = [cnt_403_retry EXCEPT ![p] = d.cnt_403_retry]
        /\ cnt_transfer_last' = [cnt_transfer_last EXCEPT ![p] = d.cnt_transfer_last]
        /\ should_switch' = [should_switch EXCEPT ![p] = d.should_switch]
        /\ switch_reason' = [switch_reason EXCEPT ![p] = d.switch_reason]
        /\ procs' = IF switch
                    THEN force_kill_rclone_subproc_by_parent_pid(procs, proc[p])
                    ELSE procs
        /\ pc' = [pc EXCEPT ![p] = IF switch THEN "pick" ELSE "monitor"]
    /\ cnt_error' = [cnt_error EXCEPT ![p] = 0]
    /\ fail_streak' = [fail_streak EXCEPT ![p] = 0]
    /\ UNCHANGED <<cfgvars, lock, conf_file, launches, result, rc_addr, sa_jsons,
                   last_sa, instance_config, proc, fnvars>>

\* The controller process dies (a signal, an uncaught error) inside the
\* locked region; the operating system drops its file lock.
Crash(p) ==
    /\ pc[p] \in {"pick", "launch", "warmup", "monitor"}
    /\ Ends(p, "killed")
    /\ fail_streak' = [fail_streak EXCEPT ![p] = 0]
    /\ UNCHANGED <<cfgvars, conf_file, procs, launches, rc_addr, fnvars>>

\* The controller process dies inside write_config, after open(path, "w")
\* has cut the file and before json.dump has written it.
CrashWriting(p) ==
    /\ \/ pc[p] = "pick" /\ get_next_sa_json_path(sa_jsons[p], last_sa[p]) # IndexError
       \/ pc[p] = "warmup"
    /\ conf_file' = [conf_file EXCEPT ![rc_addr[p]] = Truncated]
    /\ Ends(p, "killed")
    /\ fail_streak' = [fail_streak EXCEPT ![p] = 0]
    /\ UNCHANGED <<cfgvars, procs, launches, rc_addr, fnvars>>

\* ------------------------------------------------------ the environment
\* An rclone process ends by itself (the transfer is complete, or it fails).
RcloneExits(c) ==
    /\ Alive(c)
    /\ procs[c].name = "rclone"
    /\ procs' = KillAll(procs, {c})
    /\ UNCHANGED <<cfgvars, lock, conf_file, launches, ctlvars, fnvars>>

\* A shell whose command has ended exits.
ShExits(c) ==
    /\ Alive(c)
    /\ procs[c].name = "sh"
    /\ Children(procs, c) = {}
    /\ procs' = KillAll(procs, {c})
    /\ UNCHANGED <<cfgvars, lock, conf_file, launches, ctlvars, fnvars>>

\* ------------------------------------------------ exercise of the pool functions
RECURSIVE Perms(_)
\* All orderings without repetition of the elements of S.
Perms(S) ==
    IF S = {} THEN {<<>>}
    ELSE UNION {{<<x>> \o p : p \in Perms(S \ {x})} : x \in S}

\* Non-empty pools of unique credentials.
Pools == UNION {Perms(S) : S \in (SUBSET Creds) \ {{}}}

LastIds == Creds \cup {NoSa, StaleSa}

FnInit ==
    /\ fn_pool \in Pools
    /\ fn_start \in LastIds
    /\ fn_out = <<>>
    /\ fn_resumed = "none"

\* The last_id the k-th consecutive call receives.
FnInput(k) == IF k = 1 THEN fn_start ELSE fn_out[k - 1]

\* One more call, fed the previous result; an IndexError ends the chain.
CallNext ==
    /\ Len(fn_out) < Len(fn_pool)
    /\ (Len(fn_out) > 0 => fn_out[Len(fn_out)] # IndexError)
    /\ fn_out' = Append(fn_out,
                        get_next_sa_json_path(fn_pool, FnInput(Len(fn_out) + 1)))
    /\ UNCHANGED <<fn_pool, fn_start, fn_resumed, dcvars, fkvars, pfvars, mgvars, sysvars>>

\* The startup path: re-order the pool, then pick.
CallResumed ==
    /\ fn_resumed = "none"
    /\ fn_resumed' = get_next_sa_json_path(resume_order(fn_pool, fn_start), fn_start)
    /\ UNCHANGED <<fn_pool, fn_start, fn_out, dcvars, fkvars, pfvars, mgvars, sysvars>>

FnNext == CallNext \/ CallResumed

\* ------------------------------------------------ exercise of the forced kill
\* Number of calls of force_kill_rclone_subproc_by_parent_pid in a row.
MaxKillCalls == 2

\* A process tree: the wrapper shell 20 of controller 1 with the sync binary
\* 21, a child of another name 22 that has a sync binary 23 of its own, a
\* sync binary 24 that belongs to somebody else and a child 25 whose name
\* merely contains "rclone".
FkTree ==
    (20 :> [name |-> "sh", ppid |-> CtlPid(1)]) @@
    (21 :> [name |-> "rclone", ppid |-> 20]) @@
    (22 :> [name |-> "sleep", ppid |-> 20]) @@
    (23 :> [name |-> "rclone", ppid |-> 22]) @@
    (24 :> [name |-> "rclone", ppid |-> InitPid]) @@
    (25 :> [name |-> "rclone-ui", ppid |-> 20])

\* No call is going on.
FkReady ==
    /\ fk_pc = "idle"
    /\ fk_calls = 0
    /\ fk_was_alive = FALSE
    /\ fk_seen = <<>>
    /\ fk_todo = {}
    /\ fk_killed = {}
    /\ fk_gone = {}
    /\ fk_first = {}

\* No exercise of the forced kill is going on.
FkIdle ==
    /\ fk_table = <<>>
    /\ fk_pid = 0
    /\ FkReady

\* Any part of the tree is alive; the call is given the pid of the shell, of
\* its other child, or a pid that nobody has.
FkInit ==
    /\ fk_table \in {KillAll(FkTree, S) : S \in SUBSET (DOMAIN FkTree)}
    /\ fk_pid \in {20, 22, 26}
    /\ FkReady

\* The call is entered (line 138).
FkCall ==
    /\ fk_pc \in {"idle", "returned"}
    /\ fk_calls < MaxKillCalls
    /\ fk_calls' = fk_calls + 1
    /\ fk_pc' = "check"
    /\ fk_was_alive' = FALSE
    /\ fk_seen' = <<>>
    /\ fk_todo' = {}
    /\ fk_killed' = {}
    /\ fk_gone' = {}
    /\ UNCHANGED <<fk_table, fk_pid, fk_first, poolvars, dcvars, pfvars, mgvars, sysvars>>

\* The call returns.
FkReturns ==
    /\ fk_pc' = "returned"
    /\ fk_first' = IF fk_calls = 1 THEN DOMAIN fk_table' ELSE fk_first

\* psutil.pid_exists(sh_pid) (line 139): a dead pid ends the call.
FkExists ==
    /\ fk_pc = "check"
    /\ fk_was_alive' = (fk_pid \in DOMAIN fk_table)
    /\ fk_table' = fk_table
    /\ IF fk_pid \in DOMAIN fk_table
       THEN fk_pc' = "open" /\ fk_first' = fk_first
       ELSE FkReturns
    /\ UNCHANGED <<fk_pid, fk_calls, fk_seen, fk_todo, fk_killed, fk_gone,
                   poolvars, dcvars, pfvars, mgvars, sysvars>>

\* psutil.Process(sh_pid), its name() and children() (lines 140-144): each
\* raises NoSuchProcess when the process is gone by now.
FkChildren ==
    /\ fk_pc = "open"
    /\ IF fk_pid \in DOMAIN fk_table
       THEN /\ fk_pc' = "loop"
            /\ fk_seen' = fk_table
            /\ fk_todo' = Children(fk_table, fk_pid)
       ELSE /\ fk_pc' = "raised"
            /\ fk_seen' = fk_seen
            /\ fk_todo' = fk_todo
    /\ UNCHANGED <<fk_table, fk_pid, fk_calls, fk_was_alive, fk_killed, fk_gone, fk_first,
                   poolvars, dcvars, pfvars, mgvars, sysvars>>

\* One pass of the loop (lines 144-149) on the child c: its name() is read
\* and, when the name matches, it is killed; both raise NoSuchProcess when
\* the child is gone by now.
FkChild(c) ==
    /\ fk_pc = "loop"
    /\ c \in fk_todo
    /\ fk_todo' = fk_todo \ {c}
    /\ IF c \notin DOMAIN fk_table
       THEN /\ fk_pc' = "raised"
            /\ fk_table' = fk_table
            /\ fk_killed' = fk_killed
       ELSE IF KillsChild(fk_table[c].name)
       THEN /\ fk_pc' = "loop"
            /\ fk_table' = KillAll(fk_table, {c})
            /\ fk_killed' = fk_killed \cup {c}
       ELSE /\ fk_pc' = "loop"
            /\ fk_table' = fk_table
            /\ fk_killed' = fk_killed
    /\ UNCHANGED <<fk_pid, fk_calls, fk_was_alive, fk_seen, fk_gone, fk_first,
                   poolvars, dcvars, pfvars, mgvars, sysvars>>

\* The loop has visited every child: the call returns.
FkDone ==
    /\ fk_pc = "loop"
    /\ fk_todo = {}
    /\ fk_table' = fk_table
    /\ FkReturns
    /\ UNCHANGED <<fk_pid, fk_calls, fk_was_alive, fk_seen, fk_todo, fk_killed, fk_gone,
                   poolvars, dcvars, pfvars, mgvars, sysvars>>

\* A process ends by itself, at any moment.
FkProcExits(c) ==
    /\ c \in DOMAIN fk_table
    /\ fk_pc # "raised"
    /\ fk_table' = KillAll(fk_table, {c})
    /\ fk_gone' = fk_gone \cup {c}
    /\ fk_first' = {}
    /\ UNCHANGED <<fk_pid, fk_pc, fk_calls, fk_was_alive, fk_seen, fk_todo, fk_killed,
                   poolvars, dcvars, pfvars, mgvars, sysvars>>

FkNext ==
    \/ FkCall
    \/ FkExists
    \/ FkChildren
    \/ \E c \in DOMAIN FkTree : FkChild(c)
    \/ FkDone
    \/ \E c \in DOMAIN FkTree : FkProcExits(c)

\* ------------------------------------------------ the two poll loops side by side
\* Number of polls fed to the two loops.
MaxPolls == 7

\* The number the failure counter is compared with in rclone.py.
SingleErrorLimit == 3

\* The strike test of the poll loop of rclone.auto_rclone.
SingleCapReached(cnt) == cnt > SingleErrorLimit

\* A poll loop after the launch: cnt_error = 0, nothing returned.
LoopStart == [cnt_error |-> 0, returned |-> FALSE, polls |-> 0]

\* One poll of a loop whose strike test says `capped`: a success resets the
\* counter, a failure adds 1 to it and, at the cap, proc.kill() and
\* return False.
PollOnce(loop, ok, capped) ==
    IF loop.returned THEN loop
    ELSE IF ok THEN [loop EXCEPT !.cnt_error = 0, !.polls = @ + 1]
    ELSE IF capped THEN [loop EXCEPT !.cnt_error = @ + 1, !.polls = @ + 1,
                                    !.returned = TRUE]
    ELSE [loop EXCEPT !.cnt_error = @ + 1, !.polls = @ + 1]

\* No poll has been fed yet.
PfIdle ==
    /\ pf_polls = <<>>
    /\ pf_single = LoopStart
    /\ pf_rotating = LoopStart

\* ------------------------------------------------ rclone_sa_magic.auto_rclone
\* Number of service-account files explored.
MaxFiles == 4

\* Number of answered polls in a row followed while nothing has moved yet.
MaxQuiet == 6

SIZE_GB_MAX == 735
CNT_DEAD_RETRY == 100
CNT_SA_EXIT == 3
BEGIN_SA_ID == 1
END_SA_ID == 100

\* Failed polls in a row that end a session, and failed polls in all that
\* end the script.
MagicErrorLimit == 3
MagicAccErrorLimit == 9

\* Answered polls after which the count of failed polls starts over.
MagicSuccessLimit == 9

\* gen_rclone_cfg on K files returns the last index of enumerate(sa_files).
gen_rclone_cfg(K) == K - 1

\* int(size_bytes_done * 9.31322e-10), in millionths up to the truncation.
SizeGB(bytes) ==
    (bytes.hi * 931322 + ((bytes.lo \div 1000000) * 931322) \div 1000) \div 1000000

\* The pid of the rclone of the n-th session.
RclonePidOf(n) == 100 + n

\* The locals before the loop (lines 307-309); cnt_exit is unbound until the
\* first stall, where the NameError handler binds it to 1, as 0 + 1 does.
MagicLocals(b, e, supported_sa_id) ==
    [sa_id |-> b,
     end_id |-> IF e <= supported_sa_id THEN e ELSE supported_sa_id,
     cnt_acc_error |-> 0,
     cnt_error |-> 0,
     cnt_dead_retry |-> 0,
     size_bytes_done_before |-> Big(0, 0),
     cnt_acc_sucess |-> 0,
     already_start |-> FALSE,
     cnt_exit |-> 0]

\* The script is not running.
MgIdle ==
    /\ mg_files = 0
    /\ mg_args = [begin_sa_id |-> BEGIN_SA_ID, end_sa_id |-> END_SA_ID]
    /\ mg_pc = "done"
    /\ magic = MagicLocals(BEGIN_SA_ID, END_SA_ID, 0)
    /\ PID = 0
    /\ mg_rclone = [pid |-> 0, mode |-> "none"]
    /\ mg_sessions = <<>>
    /\ mg_ends = <<>>
    /\ mg_kills = {}
    /\ mg_result = "none"

\* The script has generated the config for K >= 1 files and stands before
\* the loop.
MgInit ==
    /\ mg_files \in 1..MaxFiles
    /\ mg_args \in [begin_sa_id : {BEGIN_SA_ID, BEGIN_SA_ID + 1},
                    end_sa_id : {2, END_SA_ID}]
    /\ mg_pc = "top"
    /\ magic = MagicLocals(mg_args.begin_sa_id, mg_args.end_sa_id,
                           gen_rclone_cfg(mg_files))
    /\ PID = 0
    /\ mg_rclone = [pid |-> 0, mode |-> "none"]
    /\ mg_sessions = <<>>
    /\ mg_ends = <<>>
    /\ mg_kills = {}
    /\ mg_result = "none"

\* The script is over.
MgEnds(how) ==
    /\ mg_pc' = "done"
    /\ mg_result' = how

\* The loop is left: `while sa_id <= end_id + 1` fails or sa_id == end_id + 1.
MgFinish ==
    /\ mg_pc = "top"
    /\ magic.sa_id >= magic.end_id + 1
    /\ MgEnds("finished")
    /\ UNCHANGED <<mg_files, mg_args, magic, PID, mg_rclone, mg_sessions, mg_ends,
                   mg_kills, poolvars, dcvars, fkvars, pfvars, sysvars>>

\* rclone is launched in the background for sa_id (line 365), the session's
\* locals are set (371-375); the script sleeps 10 seconds. What the rclone
\* of the session does: it never answers; it answers some polls and has
\* moved nothing yet; it moves bytes up to the quota; it moves some bytes
\* and then stands still.
MgLaunch ==
    /\ mg_pc = "top"
    /\ magic.sa_id < magic.end_id + 1
    /\ \E mode \in {"dead", "flaky", "moving", "stalled"} :
           mg_rclone' = [pid |-> RclonePidOf(Len(mg_sessions) + 1), mode |-> mode]
    /\ mg_sessions' = Append(mg_sessions, magic.sa_id)
    /\ magic' = [magic EXCEPT !.cnt_error = 0, !.cnt_dead_retry = 0,
                              !.size_bytes_done_before = Big(0, 0),
                              !.cnt_acc_sucess = 0, !.already_start = FALSE]
    /\ mg_pc' = "query"
    /\ UNCHANGED <<mg_files, mg_args, PID, mg_ends, mg_kills, mg_result,
                   poolvars, dcvars, fkvars, pfvars, sysvars>>

\* subprocess.check_call of the launch raises: return.
MgLaunchFails ==
    /\ mg_pc = "top"
    /\ magic.sa_id < magic.end_id + 1
    /\ MgEnds("launch_error")
    /\ UNCHANGED <<mg_files, mg_args, magic, PID, mg_rclone, mg_sessions, mg_ends,
                   mg_kills, poolvars, dcvars, fkvars, pfvars, sysvars>>

\* `rclone rc core/pid` (377-386): an answer is stored in PID, a failure is
\* passed over.
MgQuery(answered) ==
    /\ mg_pc = "query"
    /\ mg_rclone.mode = "dead" => ~answered
    /\ PID' = IF answered THEN mg_rclone.pid ELSE PID
    /\ mg_pc' = "poll"
    /\ UNCHANGED <<mg_files, mg_args, magic, mg_rclone, mg_sessions, mg_ends, mg_kills,
                   mg_result, poolvars, dcvars, fkvars, pfvars, sysvars>>

\* `rclone rc core/stats` fails (402-419).
MgPollFail ==
    /\ mg_pc = "poll"
    /\ mg_rclone.mode \in {"dead", "flaky"}
    /\ LET failed == magic.cnt_error + 1
           cnt_acc_error == magic.cnt_acc_error + 1
       IN
       IF failed >= MagicErrorLimit
       THEN /\ mg_ends' = Append(mg_ends, "dead")
            /\ IF cnt_acc_error >= MagicAccErrorLimit
               THEN /\ MgEnds("all_done_3_3")
                    /\ magic' = [magic EXCEPT !.cnt_error = failed,
                                              !.cnt_acc_error = cnt_acc_error,
                                              !.cnt_acc_sucess = 0]
               ELSE /\ mg_pc' = "top"
                    /\ mg_result' = mg_result
                    /\ magic' = [magic EXCEPT !.cnt_error = failed,
                                              !.cnt_acc_error = cnt_acc_error,
                                              !.cnt_acc_sucess = 0,
                                              !.sa_id = @ + 1]
       ELSE /\ mg_ends' = mg_ends
            /\ mg_pc' = "poll"
            /\ mg_result' = mg_result
            /\ magic' = [magic EXCEPT !.cnt_error = failed,
                                      !.cnt_acc_error = cnt_acc_error]
    /\ UNCHANGED <<mg_files, mg_args, PID, mg_rclone, mg_sessions, mg_kills,
                   poolvars, dcvars, fkvars, pfvars, sysvars>>

\* The byte counts the rclone of the session may report next.
MgReports(size_bytes_done) ==
    CASE mg_rclone.mode = "flaky" ->
             /\ size_bytes_done = Big(0, 0)
             /\ magic.cnt_acc_sucess < MaxQuiet
      [] mg_rclone.mode = "moving" ->
             BigGT(size_bytes_done, magic.size_bytes_done_before)
      [] mg_rclone.mode = "stalled" -> size_bytes_done = Big(1, 0)
      [] OTHER -> FALSE

\* `rclone rc core/stats` answers (391-400, 421-492).
MgPollOk(size_bytes_done) ==
    /\ mg_pc = "poll"
    /\ MgReports(size_bytes_done)
    /\ LET counted == magic.cnt_acc_sucess + 1
           reset == magic.already_start /\ counted >= MagicSuccessLimit
           cnt_acc_sucess == IF reset THEN 0 ELSE counted
           cnt_acc_error == IF reset THEN 0 ELSE magic.cnt_acc_error
           same == BigIsZero(BigSub(size_bytes_done, magic.size_bytes_done_before))
           cnt_dead_retry == IF same
                             THEN IF magic.already_start THEN magic.cnt_dead_retry + 1
                                  ELSE magic.cnt_dead_retry
                             ELSE 0
           already_start == IF same THEN magic.already_start ELSE TRUE
           stalled == cnt_dead_retry >= CNT_DEAD_RETRY
           rotate == SizeGB(size_bytes_done) >= SIZE_GB_MAX \/ stalled
           cnt_exit == IF ~rotate THEN magic.cnt_exit
                       ELSE IF stalled THEN magic.cnt_exit + 1 ELSE 0
           polled == [magic EXCEPT !.cnt_acc_sucess = cnt_acc_sucess,
                                   !.cnt_error = 0,
                                   !.cnt_acc_error = cnt_acc_error,
                                   !.cnt_dead_retry = cnt_dead_retry,
                                   !.already_start = already_start,
                                   !.size_bytes_done_before = size_bytes_done,
                                   !.cnt_exit = cnt_exit]
       IN
       IF ~rotate
       THEN /\ magic' = polled
            /\ mg_pc' = "poll"
            /\ UNCHANGED <<mg_kills, mg_ends, mg_result>>
       ELSE /\ mg_kills' = mg_kills \cup {[target |-> PID, session |-> mg_rclone.pid]}
            /\ mg_ends' = Append(mg_ends, "rotated")
            /\ IF cnt_exit >= CNT_SA_EXIT
               THEN /\ MgEnds("all_done")
                    /\ magic' = polled
               ELSE /\ mg_pc' = "top"
                    /\ mg_result' = mg_result
                    /\ magic' = [polled EXCEPT !.sa_id = @ + 1]
    /\ UNCHANGED <<mg_files, mg_args, PID, mg_rclone, mg_sessions,
                   poolvars, dcvars, fkvars, pfvars, sysvars>>

\* SIGINT while a session runs: the handler kills PID and exits (70-83).
MgSigint ==
    /\ mg_pc \in {"query", "poll"}
    /\ mg_kills' = mg_kills \cup {[target |-> PID, session |-> mg_rclone.pid]}
    /\ MgEnds("sigint")
    /\ UNCHANGED <<mg_files, mg_args, magic, PID, mg_rclone, mg_sessions, mg_ends,
                   poolvars, dcvars, fkvars, pfvars, sysvars>>

MgNext ==
    \/ MgFinish
    \/ MgLaunch
    \/ MgLaunchFails
    \/ \E answered \in BOOLEAN : MgQuery(answered)
    \/ MgPollFail
    \/ \E size_bytes_done \in {Big(0, 0), Big(1, 0), Big(789, 0), Big(790, 0)} :
           MgPollOk(size_bytes_done)
    \/ MgSigint


\* The same outcome of a poll reaches both loops.
PfPoll(ok) ==
    /\ Len(pf_polls) < MaxPolls
    /\ ~(pf_single.returned /\ pf_rotating.returned)
    /\ pf_polls' = Append(pf_polls, ok)
    /\ pf_single' = PollOnce(pf_single, ok, SingleCapReached(pf_single.cnt_error + 1))
    /\ pf_rotating' = PollOnce(pf_rotating, ok, CapReached(pf_rotating.cnt_error + 1))
    /\ UNCHANGED <<poolvars, dcvars, fkvars, mgvars, sysvars>>

PfNext == \E ok \in BOOLEAN : PfPoll(ok)

\* ------------------------------------------------ exercise of the rule evaluation
\* More entries of the transferring list: one at rest that has not sent a
\* byte, one that lacks the speed field only.
TransferIdle == [bytes |-> Has(0), speed |-> Has(0)]
TransferNoSpeed == [bytes |-> Has(1), speed |-> Missing]

\* Responses of core/stats in all their shapes: keys missing, byte counts
\* around the cap.
StatsInputs ==
    [bytes : {Missing} \cup {Has(b) : b \in ByteCounts \cup {Big(UploadCapGB - 1, Giga - 1)}},
     lastError : {Missing, Has(ErrNone), Has(ErrRateLimit)},
     transferring : {Missing} \cup
                    {Has(t) : t \in TransferLists \cup
                                    {<<TransferIdle>>, <<TransferNoSpeed>>,
                                     <<TransferStill, TransferFresh>>}}]

\* The counters of a session before its first check (lines 232-234).
DcSession ==
    /\ dc_retry = 0
    /\ dc_last = Big(0, 0)
    /\ dc_response = Missing
    /\ dc_out = Missing
    /\ dc_rising = TRUE
    /\ dc_same = 0

\* No exercise of the rule evaluation is going on.
DcIdle ==
    /\ dc_rules = [r \in RuleNames |-> FALSE]
    /\ dc_level = 0
    /\ DcSession

\* The byte count a response reports.
BytesOf(response) == Get(response[1], "bytes", Big(0, 0))

\* The latest check decided to rotate.
DcSwitched == dc_out # Missing /\ dc_out[1].switch

\* One check of the monitoring loop on a response: the rules are evaluated
\* and the counters carried over to the next check.
DecideOn(response_json) ==
    LET d == Decide(dc_rules, response_json, dc_retry, dc_last)
        recorded == IF dc_response = Missing THEN Big(0, 0) ELSE BytesOf(dc_response)
        cnt_transfer == BytesOf(Has(response_json))
    IN
    /\ d.cnt_403_retry <= StallCap
    /\ dc_retry' = d.cnt_403_retry
    /\ dc_last' = d.cnt_transfer_last
    /\ dc_response' = Has(response_json)
    /\ dc_out' = Has([should_switch |-> d.should_switch,
                      switch_reason |-> d.switch_reason,
                      switch |-> LevelReached(d.should_switch, dc_level)])
    /\ dc_rising' = (dc_rising /\ (dc_response = Missing \/ BigGT(cnt_transfer, recorded)))
    /\ dc_same' = IF cnt_transfer = recorded THEN dc_same + 1 ELSE 0
    /\ dc_same' <= StallCap
    /\ UNCHANGED <<dc_rules, dc_level, poolvars, fkvars, pfvars, mgvars, sysvars>>

\* The next check of a session that goes on.
DecideStep ==
    /\ ~DcSwitched
    /\ \E response_json \in Responses : DecideOn(response_json)

\* After a rotation the next session starts with fresh counters.
NewSession ==
    /\ DcSwitched
    /\ dc_retry' = 0
    /\ dc_last' = Big(0, 0)
    /\ dc_response' = Missing
    /\ dc_out' = Missing
    /\ dc_rising' = TRUE
    /\ dc_same' = 0
    /\ UNCHANGED <<dc_rules, dc_level, poolvars, fkvars, pfvars, mgvars, sysvars>>

\* A single check on any response, from any carried-over counters.
DecideOnce ==
    /\ dc_out = Missing
    /\ \E response_json \in StatsInputs : DecideOn(response_json)


\* ------------------------------------------------------ specifications
\* switch_sa_level and switch_sa_rules as the script sets them.
SwitchSaLevel == 2

AllRulesOn == [r \in RuleNames |-> TRUE]

\* The configuration with the stalled-transfer rule switched off.
StallRuleOff == [AllRulesOn EXCEPT !["zero_transferred_between_check_interval"] = FALSE]

\* The controllers before any run, under a given configuration.
SysInit(setting, rules, level, folder) ==
    /\ RC_ADDR = setting
    /\ switch_sa_rules = rules
    /\ switch_sa_level = level
    /\ sa_folder = folder
    /\ lock = [a \in AddrsOf(setting) |-> 0]
    /\ conf_file = [a \in AddrsOf(setting) |-> Absent]
    /\ procs = <<>>
    /\ launches = 0
    /\ pc = [p \in Ctl |-> "idle"]
    /\ result = [p \in Ctl |-> "none"]
    /\ rc_addr = [p \in Ctl |-> RcAddrOf(setting, PortLo)]
    /\ sa_jsons = [p \in Ctl |-> <<>>]
    /\ last_sa = [p \in Ctl |-> NoSa]
    /\ instance_config = [p \in Ctl |-> EmptyConfig]
    /\ proc = [p \in Ctl |-> 0]
    /\ cnt_error = [p \in Ctl |-> 0]
    /\ cnt_403_retry = [p \in Ctl |-> 0]
    /\ cnt_transfer_last = [p \in Ctl |-> Big(0, 0)]
    /\ should_switch = [p \in Ctl |-> 0]
    /\ switch_reason = [p \in Ctl |-> <<>>]
    /\ fail_streak = [p \in Ctl |-> 0]

\* No exercise of the pool functions is going on.
FnIdle ==
    /\ fn_pool = <<>>
    /\ fn_start = NoSa
    /\ fn_out = <<>>
    /\ fn_resumed = "none"
    /\ DcIdle
    /\ FkIdle
    /\ PfIdle
    /\ MgIdle

\* The account directory holds up to MaxFolder credentials.
Folders == {SubSeq(AllCreds, 1, n) : n \in 0..MaxFolder}

\* RC_ADDR = ":<port>": every run uses the same address. The life cycle of
\* the controllers is explored with the stalled-transfer rule switched off
\* (its counter is explored in SpecRules).
Init ==
    /\ \E folder \in Folders :
           SysInit(<<"", FixedPort>>, StallRuleOff, SwitchSaLevel, folder)
    /\ FnIdle

CtlStep(p) ==
    \/ StartLocked(p)
    \/ StartNoAccounts(p)
    \/ StartBadConfig(p)
    \/ StartOk(p)
    \/ Pick(p)
    \/ PickRaises(p)
    \/ Launch(p)
    \/ Warmup(p)
    \/ PollFail(p)
    \/ PollFatal(p)
    \/ PollOk(p)
    \/ Crash(p)
    \/ CrashWriting(p)

EnvStep(c) == RcloneExits(c) \/ ShExits(c)

Next == (\E p \in Ctl : CtlStep(p)) \/ (\E c \in Pids : EnvStep(c))

Spec == Init /\ [][Next]_vars

\* One controller on a pool of one credential, under every setting of the
\* rules and every level from 1 to 4: the checks of one session.
RulesInit ==
    /\ \E rules \in [RuleNames -> BOOLEAN], level \in 1..Cardinality(RuleNames) :
           SysInit(<<"", FixedPort>>, rules, level, SubSeq(AllCreds, 1, 1))
    /\ FnIdle

RulesNext ==
    \/ StartOk(1)
    \/ Pick(1)
    \/ PickRaises(1)
    \/ Launch(1)
    \/ Warmup(1)
    \/ PollFail(1)
    \/ PollFatal(1)
    \/ PollOk(1)
    \/ \E c \in Pids : EnvStep(c)

SpecRules == RulesInit /\ [][RulesNext]_vars

\* One controller with every rule on, at the level of the script, on an
\* account directory of two credentials: session after session.
CarryInit ==
    /\ SysInit(<<"", FixedPort>>, AllRulesOn, SwitchSaLevel, SubSeq(AllCreds, 1, 2))
    /\ FnIdle

SpecCarry == CarryInit /\ [][RulesNext]_vars

\* Two controllers on one account directory of one credential, under every
\* kind of RC_ADDR: unset (every process draws its own port), ":port" and
\* "host:port".
AddrSettings == {<<>>, <<"", FixedPort>>, <<"localhost", FixedPort>>}

AddrInit ==
    /\ \E setting \in AddrSettings :
           SysInit(setting, StallRuleOff, SwitchSaLevel, SubSeq(AllCreds, 1, 1))
    /\ FnIdle

AddrStep(p) ==
    \/ StartLocked(p)
    \/ StartOk(p)
    \/ Pick(p)
    \/ PickRaises(p)
    \/ Launch(p)
    \/ Warmup(p)
    \/ PollFail(p)
    \/ PollFatal(p)
    \/ PollOk(p)

AddrNext == (\E p \in Ctl : AddrStep(p)) \/ (\E c \in Pids : EnvStep(c))

SpecAddr == AddrInit /\ [][AddrNext]_vars

\* The contention for the lock of one address: all controllers, with crashes
\* at every step, on an account directory that is empty or holds one
\* credential.
LockInit ==
    /\ \E folder \in {<<>>, SubSeq(AllCreds, 1, 1)} :
           SysInit(<<"", FixedPort>>, StallRuleOff, SwitchSaLevel, folder)
    /\ FnIdle

SpecLock == LockInit /\ [][Next]_vars

\* One controller that is started again and again, with crashes at every
\* step, on account directories of 0 to MaxFolder credentials.
SoloInit == Init

SoloNext ==
    \/ StartNoAccounts(1)
    \/ StartBadConfig(1)
    \/ StartOk(1)
    \/ Pick(1)
    \/ PickRaises(1)
    \/ Launch(1)
    \/ Warmup(1)
    \/ PollFail(1)
    \/ PollFatal(1)
    \/ PollOk(1)
    \/ Crash(1)
    \/ CrashWriting(1)
    \/ \E c \in Pids : EnvStep(c)

SpecSolo == SoloInit /\ [][SoloNext]_vars

\* The pool functions alone, on every pool and every last_id.
PoolInit ==
    /\ FnInit
    /\ DcIdle
    /\ FkIdle
    /\ PfIdle
    /\ MgIdle
    /\ SysInit(<<"", FixedPort>>, AllRulesOn, SwitchSaLevel, <<>>)

SpecPool == PoolInit /\ [][FnNext]_vars

\* The stalled-transfer rule alone, and all four rules.
OnlyStallRule ==
    [r \in RuleNames |-> r = "zero_transferred_between_check_interval"]

\* Nothing but the rule evaluation happens.
DcQuiet ==
    /\ SysInit(<<"", FixedPort>>, AllRulesOn, SwitchSaLevel, <<>>)
    /\ fn_pool = <<>>
    /\ fn_start = NoSa
    /\ fn_out = <<>>
    /\ fn_resumed = "none"
    /\ FkIdle
    /\ PfIdle
    /\ MgIdle

\* Calls of the forced kill on every process table, with processes ending
\* by themselves in between.
KillInit ==
    /\ FkInit
    /\ PfIdle
    /\ MgIdle
    /\ DcIdle
    /\ SysInit(<<"", FixedPort>>, AllRulesOn, SwitchSaLevel, <<>>)
    /\ fn_pool = <<>>
    /\ fn_start = NoSa
    /\ fn_out = <<>>
    /\ fn_resumed = "none"

SpecKill == KillInit /\ [][FkNext]_vars

\* The two poll loops on every sequence of up to MaxPolls outcomes.
PollsInit ==
    /\ DcQuiet
    /\ DcIdle

\* rclone_sa_magic.auto_rclone on 1 to MaxFiles files, from the defaults of
\* begin_sa_id and end_sa_id and from other values.
MagicInit ==
    /\ MgInit
    /\ PfIdle
    /\ FkIdle
    /\ DcIdle
    /\ SysInit(<<"", FixedPort>>, AllRulesOn, SwitchSaLevel, <<>>)
    /\ fn_pool = <<>>
    /\ fn_start = NoSa
    /\ fn_out = <<>>
    /\ fn_resumed = "none"

SpecMagic == MagicInit /\ [][MgNext]_vars

SpecPolls == PollsInit /\ [][PfNext]_vars

\* The checks of the sessions of one run, one after the other, with the
\* stalled-transfer rule enabled.
StallInit ==
    /\ dc_rules \in {OnlyStallRule, AllRulesOn}
    /\ dc_level \in 1..2
    /\ DcSession
    /\ DcQuiet

StallNext == DecideStep \/ NewSession

SpecStall == StallInit /\ [][StallNext]_vars

\* Counter values a check may find: none, and around the stall limit.
RetryInputs == {0, StallLimit - 2, StallLimit - 1, StallLimit}

\* One check under every setting of the rules, on every response.
DecideInit ==
    /\ dc_rules \in [RuleNames -> BOOLEAN]
    /\ dc_level = SwitchSaLevel
    /\ dc_retry \in RetryInputs
    /\ dc_last \in ByteCounts
    /\ dc_response = Missing
    /\ dc_out = Missing
    /\ dc_rising = TRUE
    /\ dc_same = 0
    /\ DcQuiet

SpecDecide == DecideInit /\ [][DecideOnce]_vars

\* ------------------------------------------------ claims on the credential pool
CallsMade == 1..Len(fn_out)

\* C1: wrap-around. Every call of get_next_sa_json_path succeeds, and a call
\* whose last_id is the final element of the pool returns pool[0].
C1_WrapAround ==
    \A k \in CallsMade :
        /\ fn_out[k] # IndexError
        /\ (FnInput(k) = fn_pool[Len(fn_pool)] => fn_out[k] = fn_pool[1])

\* C2: a last_id that is not in the pool (empty or stale) yields pool[0], and a
\* last_id at a non-final index i yields pool[i+1].
C2_NextOfAbsentOrInner ==
    \A k \in CallsMade :
        /\ (~In(FnInput(k), fn_pool) => fn_out[k] = fn_pool[1])
        /\ \A i \in 1..(Len(fn_pool) - 1) :
               FnInput(k) = fn_pool[i] => fn_out[k] = fn_pool[i + 1]

\* C2 witness: a chain that started from a stale id and went on from pool[0].
C2_Witness ==
    /\ fn_start = StaleSa
    /\ Len(fn_out) >= 2
    /\ fn_out[1] = fn_pool[1]
    /\ fn_out[2] = fn_pool[2]

\* C3: round-robin coverage. The consecutive calls all succeed and return
\* pairwise distinct credentials; after N calls every credential was returned.
C3_RoundRobinCoverage ==
    /\ \A k \in CallsMade : fn_out[k] # IndexError
    /\ \A j, k \in CallsMade : j # k => fn_out[j] # fn_out[k]
    /\ (Len(fn_out) = Len(fn_pool) =>
            {fn_out[k] : k \in CallsMade} = {fn_pool[i] : i \in 1..Len(fn_pool)})

\* C4: resume continuity. Re-ordering the pool at startup and then picking
\* yields the same credential as picking on the original order.
C4_ResumeContinuity ==
    (fn_resumed # "none" /\ Len(fn_out) >= 1) => fn_resumed = fn_out[1]


\* ------------------------------------------------ claims on the controller
\* The controller is inside the locked region of auto_rclone.
InRegion(p) == pc[p] \in {"pick", "launch", "warmup", "monitor"}

\* The controller is at the top of the rotation loop after a rotation.
Rotated(p) == pc[p] = "pick" /\ proc[p] # 0

\* The live sync binaries.
SyncBinaries == {c \in Pids : procs[c].name = "rclone"}

\* C5: every rotation is followed by the kill of the session's sync process
\* and by the launch of a session under the next credential: the check that
\* rotates leaves no rclone child of the session's shell, and the step the
\* controller then takes at the top of the loop, unless the controller itself
\* is killed there, leads to the launch, at every position of the pool.
C5_RotationCyclesForward ==
    [][\A p \in Ctl :
        /\ (pc[p] = "monitor" /\ pc'[p] = "pick") =>
               ForceKillTargets(procs', proc[p]) = {}
        /\ (Rotated(p) /\ pc'[p] # "pick" /\ result'[p] # "killed") =>
               pc'[p] = "launch"]_vars

\* C6: the controller rotates on a successful poll exactly when the number
\* of enabled rules that hit is at least switch_sa_level; a disabled rule is
\* never among the hits.
C6_RotationThreshold ==
    \A p \in Ctl :
        /\ should_switch[p] = Len(switch_reason[p])
        /\ \A i \in 1..Len(switch_reason[p]) :
               /\ switch_sa_rules[switch_reason[p][i]]
               /\ \A j \in 1..Len(switch_reason[p]) :
                      i # j => switch_reason[p][i] # switch_reason[p][j]
        /\ (pc[p] = "monitor" => should_switch[p] < switch_sa_level)
        /\ (Rotated(p) => should_switch[p] >= switch_sa_level)

\* C6 witness: level 2, four rules enabled, exactly 2 rules hit, rotated.
C6_Witness ==
    \E p \in Ctl :
        /\ switch_sa_level = 2
        /\ \A r \in RuleNames : switch_sa_rules[r]
        /\ should_switch[p] = 2
        /\ Rotated(p)

\* C7: the fatal path is taken exactly on the 3rd consecutive failed poll:
\* while the session is monitored the failure counter equals the number of
\* failed polls since the last success (or the launch) and is below 3, and
\* the run has ended on the poll cap exactly when that number is 3.
C7_PollFailureCap ==
    \A p \in Ctl :
        /\ (pc[p] = "monitor" => cnt_error[p] = fail_streak[p] /\ fail_streak[p] < 3)
        /\ (fail_streak[p] >= 3 <=> (pc[p] = "done" /\ result[p] = "poll_cap"))
        /\ fail_streak[p] <= 3

\* C7 witness: a run that ended on its 3rd consecutive failed poll.
C7_Witness ==
    \E p \in Ctl : pc[p] = "done" /\ result[p] = "poll_cap" /\ fail_streak[p] = 3

\* C8: once auto_rclone has returned False on the poll cap, neither the
\* wrapper shell nor the sync binary of the session is alive.
C8_FatalKillsSession ==
    [][\A p \in Ctl :
        (pc[p] = "monitor" /\ pc'[p] = "done" /\ result'[p] = "poll_cap") =>
            /\ proc[p] \notin DOMAIN procs'
            /\ (proc[p] + 1) \notin DOMAIN procs']_vars

\* C9: at most one sync binary is alive at any time.
C9_OneSessionAtATime == Cardinality(SyncBinaries) <= 1

CtlView(p) ==
    <<pc[p], result[p], rc_addr[p], sa_jsons[p], last_sa[p], instance_config[p],
      proc[p], cnt_error[p], cnt_403_retry[p], cnt_transfer_last[p],
      should_switch[p], switch_reason[p]>>

\* C11: two controllers that use the same account directory and the same
\* settings are never both inside the locked region of auto_rclone, whatever
\* RC_ADDR is, the unset one included.
C11_OnePoolOneController ==
    \A p, q \in Ctl : (InRegion(p) /\ InRegion(q)) => p = q

\* C12: a controller started while another one holds the lock of its rc
\* address ends in that very step with the Timeout error; the step leaves the
\* lock, the instance-state file and the process table as they were, launches
\* nothing, and changes nothing of the controller that is running.
C12_FailFastSecondInvocation ==
    [][\A q \in Ctl :
        (/\ pc[q] \in {"idle", "done"}
         /\ CtlView(q)' # CtlView(q)
         /\ lock[rc_addr'[q]] # 0)
        => /\ pc'[q] = "done"
           /\ result'[q] = "Timeout"
           /\ UNCHANGED <<lock, conf_file, procs, launches>>
           /\ \A p \in Ctl \ {q} : CtlView(p)' = CtlView(p)]_vars

\* C12 witness: a controller has ended on Timeout while the holder of the
\* lock is in the warm-up of a session whose shell and rclone are alive.
C12_Witness ==
    \E p, q \in Ctl :
        /\ p # q
        /\ pc[q] = "done"
        /\ result[q] = "Timeout"
        /\ pc[p] = "warmup"
        /\ lock[rc_addr[q]] = p
        /\ Alive(proc[p])
        /\ Alive(proc[p] + 1)

\* The persisted last_sa a starting controller finds, or NoSa.
PersistedSa(addr) == Get(conf_file[addr].data, "last_sa", NoSa)

\* The controller is at the top of the rotation loop for the first time in
\* its run, having found the credential c persisted as last_sa.
RestartedAfter(p, c) ==
    /\ pc[p] = "pick"
    /\ proc[p] = 0
    /\ In(c, sa_folder)
    /\ PersistedSa(rc_addr[p]) = c

\* The credential of the session a Launch step of p starts.
Launched(p) == procs'[proc'[p] + 1].sa

\* The element after c in the account directory, the first one after the last.
CyclicNext(folder, c) == folder[((Index(folder, c) + 1) % Len(folder)) + 1]

\* C13: a controller started with last_sa = c persisted picks c itself as
\* its first credential and launches its first session under it.
C13_RestartResumesSame ==
    [][\A p \in Ctl :
        /\ \A c \in Creds :
               (RestartedAfter(p, c) /\ pc'[p] = "launch") => last_sa'[p] = c
        /\ (pc[p] = "launch" /\ pc'[p] = "warmup") => Launched(p) = last_sa[p]]_vars

\* C13 as amended: the first pick of a controller started with last_sa = c
\* persisted is the credential that follows c in the account directory
\* (cyclically), which is not c, and the session is launched under it.
C13_RestartTakesNext ==
    [][\A p \in Ctl :
        /\ \A c \in Creds :
               (RestartedAfter(p, c) /\ pc'[p] = "launch") =>
                   /\ last_sa'[p] = CyclicNext(sa_folder, c)
                   /\ last_sa'[p] # c
        /\ (pc[p] = "launch" /\ pc'[p] = "warmup") => Launched(p) = last_sa[p]]_vars

\* C13 witness: an earlier run was killed in the warm-up of its session under
\* sa1.json (no last_pid was persisted yet); the controller started after it
\* is in the warm-up of its first session, under sa2.json.
C13_Witness ==
    \E p \in Ctl :
        /\ pc[p] = "warmup"
        /\ launches >= 2
        /\ sa_jsons[p] = sa_folder
        /\ Len(sa_folder) = 2
        /\ Alive(proc[p] + 1)
        /\ procs[proc[p] + 1].sa = sa_folder[2]
        /\ instance_config[p].last_pid = Missing

\* C14: during the warm-up wait and the monitoring of a session the
\* persisted last_pid is the pid of the session's wrapper shell.
C14_PidPersistedAtLaunch ==
    \A p \in Ctl :
        pc[p] \in {"warmup", "monitor"} =>
            /\ conf_file[rc_addr[p]].kind = "json"
            /\ conf_file[rc_addr[p]].data.last_pid = Has(proc[p])

\* ------------------------------------------------ claims on the rule evaluation
\* The stalled-transfer rule is enabled in the checks exercised.
StallOn == dc_rules["zero_transferred_between_check_interval"]

\* The latest check hit the rule.
Hit(rule) == In(rule, dc_out[1].switch_reason)

\* C15: with the stalled-transfer rule enabled, a successful poll whose bytes
\* value equals that of the previous successful poll of the session adds
\* exactly 1 to the stall counter, one whose bytes value is larger sets it to
\* 0, and while the bytes values of the session rise strictly the counter is
\* never incremented.
C15_StallCounter ==
    [][(StallOn /\ dc_response' # Missing) =>
        LET now == BytesOf(dc_response') IN
        /\ (dc_response # Missing /\ now = BytesOf(dc_response)) =>
               dc_retry' = dc_retry + 1
        /\ (dc_response # Missing /\ BigGT(now, BytesOf(dc_response))) =>
               dc_retry' = 0
        /\ dc_rising' => dc_retry' <= dc_retry]_vars

\* C15 as amended: the first successful poll of a session is compared with
\* 0, so a first poll that reports 0 bytes adds 1 to the counter; that is the
\* only increment a strictly rising sequence of bytes values can cause.
C15_StallCounterFromZero ==
    [][(StallOn /\ dc_response' # Missing) =>
        LET now == BytesOf(dc_response') IN
        /\ (dc_response # Missing /\ now = BytesOf(dc_response)) =>
               dc_retry' = dc_retry + 1
        /\ (dc_response # Missing /\ BigGT(now, BytesOf(dc_response))) =>
               dc_retry' = 0
        /\ (dc_response = Missing /\ now = Big(0, 0)) => dc_retry' = dc_retry + 1
        /\ (dc_response = Missing /\ now # Big(0, 0)) => dc_retry' = 0
        /\ dc_rising' =>
               \/ dc_retry' <= dc_retry
               \/ (dc_response = Missing /\ now = Big(0, 0) /\ dc_retry' = 1)]_vars

\* C15 witness: after a poll that reported more bytes than the one before,
\* two polls repeated its value: the counter stands at 2.
C15_Witness ==
    /\ StallOn
    /\ dc_response # Missing
    /\ BytesOf(dc_response) = Big(UploadCapGB, 1)
    /\ dc_retry = 2
    /\ ~dc_rising

\* C16: with only the stalled-transfer rule enabled and switch_sa_level = 1,
\* the check that rotates is the 100th in a row that repeats the recorded
\* bytes value, and none before it.
C16_StallRotatesAt100 ==
    (dc_rules = OnlyStallRule /\ dc_level = 1) =>
        /\ dc_same <= 100
        /\ DcSwitched <=> dc_same = 100

\* C16 witness: the 100th repeating check has rotated.
C16_Witness ==
    /\ dc_rules = OnlyStallRule
    /\ dc_level = 1
    /\ dc_same = 100
    /\ DcSwitched
    /\ dc_out[1].switch_reason = <<"zero_transferred_between_check_interval">>

\* C17: the rule up_than_750, when enabled, hits exactly when the reported
\* bytes exceed 750 * 1000^3: not at the threshold, and at threshold + 1.
C17_SizeCapExact ==
    (dc_out # Missing /\ dc_rules["up_than_750"]) =>
        LET b == BytesOf(dc_response) IN
        /\ Hit("up_than_750") <=> (b.hi > 750 \/ (b.hi = 750 /\ b.lo > 0))
        /\ (b = [hi |-> 750, lo |-> 0] => ~Hit("up_than_750"))
        /\ (b = [hi |-> 750, lo |-> 1] => Hit("up_than_750"))

\* C17 witness: a check on threshold + 1 bytes has hit the rule.
C17_Witness ==
    /\ dc_out # Missing
    /\ dc_rules["up_than_750"]
    /\ BytesOf(dc_response) = [hi |-> 750, lo |-> 1]
    /\ Hit("up_than_750")

\* The transferring list of the latest response (an absent one is empty).
Entries == Get(dc_response[1], "transferring", <<>>)

\* C18: the rule all_transfers_in_zero, when enabled, hits exactly when
\* every entry of the transferring list lacks the bytes or the speed field,
\* or has speed = 0 together with bytes != 0.
C18_AllIdleRule ==
    (dc_out # Missing /\ dc_rules["all_transfers_in_zero"]) =>
        (Hit("all_transfers_in_zero") <=>
            \A k \in 1..Len(Entries) :
                \/ Entries[k].bytes = Missing
                \/ Entries[k].speed = Missing
                \/ (Entries[k].speed = Has(0) /\ Entries[k].bytes # Has(0)))

\* C18 as amended: the rule hits exactly when no entry of the transferring
\* list has both fields with bytes != 0 and speed > 0.
C18_NoneMoving ==
    (dc_out # Missing /\ dc_rules["all_transfers_in_zero"]) =>
        (Hit("all_transfers_in_zero") <=>
            ~\E k \in 1..Len(Entries) :
                /\ Entries[k].bytes # Missing
                /\ Entries[k].speed # Missing
                /\ Entries[k].bytes[1] # 0
                /\ Entries[k].speed[1] > 0)

\* C18 witness: the rule has hit on a list whose second entry has a positive
\* speed and no byte sent yet.
C18_Witness ==
    /\ dc_out # Missing
    /\ dc_rules["all_transfers_in_zero"]
    /\ Entries = <<TransferStill, TransferFresh>>
    /\ Hit("all_transfers_in_zero")

\* ------------------------------------------------ claims on the ends of a run
\* C19: the failed poll that reaches the cap ends the run with the failure
\* result in that very step: no credential is picked, nothing is launched,
\* and the instance-state file still names the credential of the failed
\* session as last_sa.
C19_NoAdvanceAfterPollCap ==
    [][\A p \in Ctl :
        (pc[p] = "monitor" /\ fail_streak[p] = 2 /\ fail_streak'[p] = 3) =>
            /\ pc'[p] = "done"
            /\ result'[p] = "poll_cap"
            /\ launches' = launches
            /\ conf_file' = conf_file
            /\ conf_file'[rc_addr[p]].kind = "json"
            /\ conf_file'[rc_addr[p]].data.last_sa = Has(last_sa[p])
            /\ (Alive(proc[p]) => procs[proc[p]].sa = last_sa[p])]_vars

\* C19 witness: the first session of a directory of two credentials has
\* ended on the poll cap; sa1.json is still the persisted last_sa and only
\* one sync process was ever launched.
C19_Witness ==
    \E p \in Ctl :
        /\ pc[p] = "done"
        /\ result[p] = "poll_cap"
        /\ fail_streak[p] = 3
        /\ Len(sa_folder) = 2
        /\ launches = 1
        /\ PersistedSa(rc_addr[p]) = sa_folder[1]

\* C20: with an empty account directory every run ends in its first step
\* with the result of `return False`; the step launches nothing, kills
\* nothing, leaves the instance-state file as it was and the lock free.
C20_EmptyPoolFatal ==
    [][\A p \in Ctl :
        (Len(sa_folder) = 0 /\ CtlView(p)' # CtlView(p)) =>
            /\ pc[p] \in {"idle", "done"}
            /\ pc'[p] = "done"
            /\ result'[p] = "no_sa"
            /\ UNCHANGED <<lock, conf_file, procs, launches>>
            /\ conf_file[rc_addr'[p]] = Absent
            /\ lock[rc_addr'[p]] = 0]_vars

\* C20 witness: a run on the empty directory has returned False; no
\* instance-state file exists and no process was launched.
C20_Witness ==
    \E p \in Ctl :
        /\ Len(sa_folder) = 0
        /\ pc[p] = "done"
        /\ result[p] = "no_sa"
        /\ conf_file[rc_addr[p]] = Absent
        /\ launches = 0
        /\ Pids = {}

\* ------------------------------------------------ claims on the forced kill
\* C21: a call never raises; on a pid that names no live process it kills
\* nothing; a second call in a row leaves the live processes the first call
\* left.
C21_IdempotentKill ==
    /\ fk_pc # "raised"
    /\ (fk_pc \in {"open", "loop", "returned"} /\ ~fk_was_alive) => fk_killed = {}
    /\ (fk_pc = "returned" /\ fk_calls = 2 /\ fk_first # {}) =>
           DOMAIN fk_table = fk_first

\* C22: the call kills direct children of the pid named after the sync
\* binary and nothing else, all of them once it has returned; every other
\* process that has not ended by itself is still alive.
C22_KillScope ==
    LET DirectChildren == {c \in DOMAIN fk_seen : fk_seen[c].ppid = fk_pid}
        NamedRclone ==
            {c \in DirectChildren : fk_seen[c].name \in {"rclone", "rclone-ui"}}
    IN
    /\ fk_killed \subseteq NamedRclone
    /\ (fk_pc = "returned" /\ fk_was_alive) => fk_killed = NamedRclone
    /\ fk_pc \in {"loop", "returned"} =>
           (DOMAIN fk_seen) \ (fk_killed \cup fk_gone) \subseteq DOMAIN fk_table

\* C22 witness: the call on the shell of the whole tree has returned: the
\* children 21 and 25 were killed; the shell, its other child, the
\* grandchild and the foreign sync binary are alive.
C22_Witness ==
    /\ fk_pc = "returned"
    /\ fk_pid = 20
    /\ fk_killed = {21, 25}
    /\ DOMAIN fk_table = {20, 22, 23, 24}

\* ------------------------------------------------ claims on the state file
\* C23: the instance-state file is never left cut short by a write: at every
\* moment it is absent or holds complete JSON, and no start fails to load it.
C23_AtomicStateOverwrite ==
    /\ \A a \in DOMAIN conf_file : conf_file[a] # Truncated
    /\ \A p \in Ctl : result[p] # "JSONDecodeError"

\* C25: whenever a sync process launched by the controller is running, the
\* instance-state file of its address holds its credential as last_sa, also
\* after last_pid has been written.
C25_PersistedIdentity ==
    \A c \in {r \in Pids : procs[r].name = "rclone"} :
        /\ conf_file[procs[c].addr].kind = "json"
        /\ conf_file[procs[c].addr].data.last_sa = Has(procs[c].sa)

\* ------------------------------------------------ claims on the session counters
\* C24: the step that starts a session (the end of the warm-up) leaves the
\* failure counter, the stall counter and the last byte count at 0.
C24_SessionCountersFresh ==
    [][\A p \in Ctl :
          (pc[p] = "warmup" /\ pc'[p] = "monitor") =>
              /\ cnt_error'[p] = 0
              /\ cnt_403_retry'[p] = 0
              /\ cnt_transfer_last'[p] = Big(0, 0)]_vars

\* C24 witness: the second session of a run has just started.
C24_Witness ==
    /\ pc[1] = "monitor"
    /\ launches = 2
    /\ instance_config[1].last_pid = Has(FirstPid + 2)
    /\ last_sa[1] = AllCreds[2]
    /\ cnt_error[1] = 0
    /\ cnt_403_retry[1] = 0
    /\ cnt_transfer_last[1] = Big(0, 0)

\* C26: a failed poll that leaves the run of failures below the cap adds 1
\* to the failure counter and changes nothing else: no rule is evaluated,
\* nothing is killed, the loop stays in the session, the state file is not
\* written.
C26_FailedPollBelowCap ==
    [][\A p \in Ctl :
          (fail_streak'[p] = fail_streak[p] + 1 /\ fail_streak'[p] < ErrorLimit) =>
              /\ cnt_error'[p] = cnt_error[p] + 1
              /\ UNCHANGED <<cfgvars, envvars, pc, result, rc_addr, sa_jsons, last_sa,
                             instance_config, proc, cnt_403_retry, cnt_transfer_last,
                             should_switch, switch_reason>>]_vars

\* C26 witness: two polls in a row have failed in a session whose stall
\* counter and last byte count are not 0.
C26_Witness ==
    /\ pc[1] = "monitor"
    /\ fail_streak[1] = 2
    /\ cnt_error[1] = 2
    /\ cnt_403_retry[1] > 0
    /\ cnt_transfer_last[1] # Big(0, 0)

\* ------------------------------------------------ claims on the single-account loop
\* C27: on the same outcomes the two poll loops return on the same poll, the
\* 3rd failure in a row, and hold the same failure counter, which a success
\* sets to 0.
C27_SamePollPolicy ==
    LET FailedLast(n) ==
            /\ Len(pf_polls) >= n
            /\ \A i \in (Len(pf_polls) - n + 1)..Len(pf_polls) : ~pf_polls[i]
    IN
    /\ pf_single.returned = pf_rotating.returned
    /\ pf_single.polls = pf_rotating.polls
    /\ pf_single.cnt_error = pf_rotating.cnt_error
    /\ pf_single.returned => pf_single.cnt_error = ErrorLimit
    /\ (~pf_single.returned /\ FailedLast(1)) => ~FailedLast(ErrorLimit)
    /\ (Len(pf_polls) > 0 /\ ~FailedLast(1)) => pf_single.cnt_error = 0

\* ------------------------------------------------ claims on rclone_sa_magic
\* C28: a script that has left its loop with no early exit has run one
\* session for every sa_id from begin_sa_id to the smaller of end_sa_id and
\* the number of files, in increasing order, each once; on one file and
\* begin_sa_id = 1 it has run the session of sa_id 1.
C28_AccountCoverage ==
    LET b == mg_args.begin_sa_id
        last == IF mg_args.end_sa_id <= mg_files THEN mg_args.end_sa_id ELSE mg_files
    IN
    mg_result = "finished" =>
        mg_sessions = [i \in 1..(IF last >= b THEN last - b + 1 ELSE 0) |-> b + i - 1]

\* C29: every kill the script has issued had for target the pid of the
\* rclone of the session it was issued in: not 0, not the rclone of an
\* earlier session.
C29_KillTarget ==
    \A k \in mg_kills :
        /\ k.target = k.session
        /\ k.target # 0
        /\ \A n \in 1..(Len(mg_sessions) - 1) :
               k.session = RclonePidOf(Len(mg_sessions)) => k.target # RclonePidOf(n)

\* C30: the script has returned with 'All done (3/3)' only when the last
\* three sessions each ended by 3 failed polls in a row; never in its first
\* or second session.
C30_AllDoneDetection ==
    mg_result = "all_done_3_3" =>
        /\ Len(mg_sessions) >= 3
        /\ Len(mg_ends) >= 3
        /\ \A i \in (Len(mg_ends) - 2)..Len(mg_ends) : mg_ends[i] = "dead"

=============================================================================
